---- MODULE Spec2Model ----
(***************************************************************************)
(* Model of Library/Core/gen_headers.py: a command-line generator that     *)
(* writes one of three fixed configuration headers to a path.              *)
(*                                                                         *)
(* An invocation is a process running the __main__ block.  Its steps are   *)
(* split where the operating system can interleave another process:        *)
(*   Main   argument inspection and dispatch (lines 48-63),                *)
(*   Open   open(output_file, 'w'): create or truncate (lines 20, 44),     *)
(*   Write  f.write(content): text-mode encoding into the handle's buffer  *)
(*          (lines 21, 45),                                                *)
(*   Close  leaving the with-block: flush of the buffer and close.         *)
(* File contents are byte strings; sys.argv[k] is argv[k + 1].             *)
(***************************************************************************)
EXTENDS Integers, Sequences, FiniteSets

VARIABLES
    linesep,  \* os.linesep of the platform the script runs on
    fs,       \* the file system: path -> [exists, data]
    proc      \* the invocations: process -> its interpreter state

vars == <<linesep, fs, proc>>

(***************************************************************************)
(* Bounds of the model.                                                    *)
(***************************************************************************)
\* largest number of command-line arguments after the script name
MaxArgs == 4
\* largest number of arguments in the runs checked for termination
MaxFairArgs == 3
\* length of the longest prior content of the target file
MaxJunk == 300

Procs == {1, 2}

(***************************************************************************)
(* The environment: argument tokens, paths, platforms.                     *)
(***************************************************************************)
ScriptName == "gen_headers.py"

ArgTokens == {"version", "threads", "win32", "", "out.h", "nodir/out.h", "full/out.h"}


\* every string that open() can be handed by the dispatch is a path
Paths == ArgTokens \ {""}

\* open(path, 'w') raises FileNotFoundError: the parent directory is missing
NoParent == {"nodir/out.h"}

\* open succeeds, the flush raises OSError(ENOSPC): the device is full
DeviceFull == {"full/out.h"}

Writable == Paths \ (NoParent \cup DeviceFull)

LineSeps == {"\n", "\r\n"}

RECURSIVE SeqsUpTo(_, _)
SeqsUpTo(S, n) ==
    IF n = 0 THEN {<<>>}
    ELSE LET shorter == SeqsUpTo(S, n - 1)
         IN  shorter \cup {Append(s, x) : s \in {t \in shorter : Len(t) = n - 1}, x \in S}

\* sys.argv of an invocation: the script name, then at most n tokens of S
Argvs(S, n) == {<<ScriptName>> \o a : a \in SeqsUpTo(S, n)}

\* the argument vectors of invocations that run side by side: a command, a
\* path, and no variant, the win32 variant or another token
ConcArgvs ==
    {<<ScriptName, c, path>> \o v :
        c \in {"version", "threads"},
        path \in {"out.h", "nodir/out.h", "full/out.h"},
        v \in {<<>>, <<"win32">>, <<"bogus">>}}

None == <<>>
Some(x) == <<x>>

(***************************************************************************)
(* The three header texts, as the string literals of the source.           *)
(***************************************************************************)
\* the version text with the build number line left out
version_content_short ==
    "#ifndef XSIGMA_VERSION_MACROS_H\n"
    \o "#define XSIGMA_VERSION_MACROS_H\n"
    \o "\n"
    \o "#define XSIGMA_MAJOR_VERSION 1\n"
    \o "#define XSIGMA_MINOR_VERSION 0\n"
    \o "#define XSIGMA_VERSION_FULL \"1.0.0\"\n"
    \o "\n"
    \o "#endif // XSIGMA_VERSION_MACROS_H\n"

\* gen_version_macros: content
version_content ==
    "#ifndef XSIGMA_VERSION_MACROS_H\n"
    \o "#define XSIGMA_VERSION_MACROS_H\n"
    \o "\n"
    \o "#define XSIGMA_MAJOR_VERSION 1\n"
    \o "#define XSIGMA_MINOR_VERSION 0\n"
    \o "#define XSIGMA_BUILD_VERSION 0\n"
    \o "#define XSIGMA_VERSION_FULL \"1.0.0\"\n"
    \o "\n"
    \o "#endif // XSIGMA_VERSION_MACROS_H\n"

\* gen_threads_header: content when use_win32
win32_content ==
    "#ifndef XSIGMA_THREADS_H\n"
    \o "#define XSIGMA_THREADS_H\n"
    \o "\n"
    \o "#define XSIGMA_USE_WIN32_THREADS 1\n"
    \o "#define XSIGMA_MAX_THREADS 64\n"
    \o "\n"
    \o "#endif // XSIGMA_THREADS_H\n"

\* gen_threads_header: content otherwise
pthreads_content ==
    "#ifndef XSIGMA_THREADS_H\n"
    \o "#define XSIGMA_THREADS_H\n"
    \o "\n"
    \o "#define XSIGMA_USE_PTHREADS 1\n"
    \o "#define XSIGMA_MAX_THREADS 64\n"
    \o "\n"
    \o "#endif // XSIGMA_THREADS_H\n"

\* gen_threads_header: the if/else that selects the text
threads_content(use_win32) == IF use_win32 THEN win32_content ELSE pthreads_content

UsageLine == "Usage: gen_headers.py <command> [output_file]"

UnknownLine(command) == "Unknown command: " \o command

(***************************************************************************)
(* Files.  A handle opened with mode 'w' is a text-mode handle: each "\n"  *)
(* written is translated to os.linesep; the texts are ASCII, which every   *)
(* locale encoding the interpreter supports maps to the same bytes.        *)
(***************************************************************************)
AbsentFile == [exists |-> FALSE, data |-> ""]

RECURSIVE TextEncode(_, _)
TextEncode(s, sep) ==
    IF s = "" THEN ""
    ELSE IF Len(s) = 1 THEN (IF s = "\n" THEN sep ELSE s)
    ELSE LET half == Len(s) \div 2
         IN  TextEncode(SubSeq(s, 1, half), sep) \o TextEncode(SubSeq(s, half + 1, Len(s)), sep)

\* what f.write(text) puts into the buffer of a text-mode handle, for each
\* text the script writes and each platform
EncodedTexts ==
    [sep \in LineSeps |->
        [text \in {version_content, win32_content, pthreads_content} |-> TextEncode(text, sep)]]

\* a handle opened without truncation (mode 'r+' on an existing file)
OpenKeep(file) == [exists |-> TRUE, data |-> file.data]

\* open(path, 'w') on a path whose directory is there: O_CREAT | O_TRUNC
OpenTruncate(file) == [exists |-> TRUE, data |-> ""]

\* the flush of a handle opened for appending (mode 'a')
FlushAtEnd(file, bytes) == [exists |-> TRUE, data |-> file.data \o bytes]

\* the flush of a handle whose offset is 0 (the text is shorter than the
\* handle's buffer, so the flush at close is its one write): the bytes
\* replace the first Len(bytes) bytes of the file and leave what lies
\* beyond them
FlushAtStart(file, bytes) ==
    [exists |-> TRUE,
     data |-> bytes \o SubSeq(file.data, Len(bytes) + 1, Len(file.data))]

(***************************************************************************)
(* The interpreter state of one invocation.                                *)
(***************************************************************************)
IdleProc ==
    [pc |-> "idle", argv |-> <<>>, rerun |-> FALSE,
     command |-> None, output_file |-> None, use_win32 |-> FALSE,
     content |-> "", calls |-> <<>>,
     f |-> "none", buffer |-> "", opens |-> 0, flushes |-> 0,
     stdout |-> <<>>, stderr |-> <<>>, raised |-> None, exit_status |-> None]

StartProc(argv, again) == [IdleProc EXCEPT !.pc = "main", !.argv = argv, !.rerun = again]

\* print(...)
PrintLine(r, line) == [r EXCEPT !.stdout = Append(@, line)]

\* sys.exit(code)
SysExit(r, code) == [r EXCEPT !.pc = "done", !.exit_status = Some(code)]

\* "if" in place of "elif": after the version header is written the
\* else-branch of the threads test runs
EndOfScriptThroughElse(r) ==
    IF r.command = Some("version")
    THEN [r EXCEPT !.pc = "done", !.stdout = Append(@, "Unknown command: version"),
                   !.exit_status = Some(1)]
    ELSE [r EXCEPT !.pc = "done", !.exit_status = Some(0)]

\* the end of the script is reached: the interpreter exits with status 0
EndOfScript(r) == [r EXCEPT !.pc = "done", !.exit_status = Some(0)]

\* an exception that is caught and dropped: the script ends normally
Swallowed(r, exc) == [r EXCEPT !.pc = "done", !.raised = Some(exc), !.exit_status = Some(0)]

\* an exception nothing catches: the interpreter prints the traceback on
\* standard error and exits with status 1
Uncaught(r, exc) ==
    [r EXCEPT !.pc = "done", !.raised = Some(exc),
              !.stderr = Append(@, "Traceback (most recent call last): " \o exc),
              !.exit_status = Some(1)]

(***************************************************************************)
(* __main__: the dispatch.                                                 *)
(***************************************************************************)
\* a missing output path replaced by a default name
OutputFileOrDefault(argv) == IF Len(argv) > 2 THEN Some(argv[3]) ELSE Some("out.h")

\* output_file = sys.argv[2] if len(sys.argv) > 2 else None
OutputFile(argv) == IF Len(argv) > 2 THEN Some(argv[3]) ELSE None

\* "and output_file is not None"
NotNone(opt) == opt # None

\* "and output_file": None and the empty string are false
Truthy(opt) == opt # None /\ opt[1] # ""

\* 'win32' in sys.argv[3:]
UseWin32Anywhere(argv) == \E i \in 4..Len(argv) : argv[i] = "win32"

\* use_win32 = len(sys.argv) > 3 and sys.argv[3] == 'win32'
UseWin32(argv) == Len(argv) > 3 /\ argv[4] = "win32"

\* the branch of the if/elif/else chain that sys.argv selects
Dispatch(argv) ==
    IF Len(argv) < 2 THEN "usage"
    ELSE IF argv[2] = "version" /\ Truthy(OutputFile(argv)) THEN "version"
    ELSE IF argv[2] = "threads" /\ Truthy(OutputFile(argv)) THEN "threads"
    ELSE "unknown"

\* the call of an emitter: its parameters and its local content
Call(r, name, path, win32, text) ==
    [r EXCEPT !.pc = "open", !.calls = Append(@, name), !.output_file = Some(path),
              !.use_win32 = win32, !.content = text]

\* the usage message printed without a failing exit status
UsageExitZero(r) == SysExit(PrintLine(r, UsageLine), 0)

\* print("Usage: ..."); sys.exit(1)
UsageExit(r) == SysExit(PrintLine(r, UsageLine), 1)

MainStep(r) ==
    LET branch == Dispatch(r.argv) IN
    IF branch = "usage" THEN UsageExit(r)
    ELSE LET r1 == [r EXCEPT !.command = Some(r.argv[2])] IN
         IF branch = "version"
         THEN Call(r1, "gen_version_macros", OutputFile(r.argv)[1], FALSE, version_content)
         ELSE IF branch = "threads"
         THEN Call(r1, "gen_threads_header", OutputFile(r.argv)[1], UseWin32(r.argv),
                   threads_content(UseWin32(r.argv)))
         ELSE SysExit(PrintLine(r1, UnknownLine(r.argv[2])), 1)

(***************************************************************************)
(* Actions.                                                                *)
(***************************************************************************)
\* the build runs the script with some argument vector
Invoke(p, argvs) ==
    /\ proc[p].pc = "idle"
    /\ \E argv \in argvs : proc' = [proc EXCEPT ![p] = StartProc(argv, FALSE)]
    /\ UNCHANGED <<linesep, fs>>

\* the build runs the script again with identical arguments
Rerun(p) ==
    /\ proc[p].pc = "done"
    /\ proc' = [proc EXCEPT ![p] = StartProc(@.argv, TRUE)]
    /\ UNCHANGED <<linesep, fs>>

Main(p) ==
    /\ proc[p].pc = "main"
    /\ proc' = [proc EXCEPT ![p] = MainStep(@)]
    /\ UNCHANGED <<linesep, fs>>

\* a flush that raises and leaves the handle open (no with-block)
FlushFailedLeak(r) == Uncaught([r EXCEPT !.flushes = @ + 1], "OSError")

\* f.__exit__ when the flush raises: the handle is closed, the error goes on
FlushFailed(r) == Uncaught([r EXCEPT !.f = "closed", !.flushes = @ + 1], "OSError")

\* with open(output_file, 'w') as f
Open(p) ==
    /\ proc[p].pc = "open"
    /\ LET path == proc[p].output_file[1] IN
       IF path \notin Paths \/ path \in NoParent
       THEN /\ proc' = [proc EXCEPT ![p] =
                          Uncaught([@ EXCEPT !.opens = @ + 1], "FileNotFoundError")]
            /\ fs' = fs
       ELSE /\ proc' = [proc EXCEPT ![p] =
                          [@ EXCEPT !.pc = "write", !.f = "open", !.opens = @ + 1]]
            /\ fs' = [fs EXCEPT ![path] = OpenTruncate(@)]
    /\ UNCHANGED linesep

\* f.write(content): the text is encoded into the handle's buffer
Write(p) ==
    /\ proc[p].pc = "write"
    /\ proc' = [proc EXCEPT ![p] =
                  [@ EXCEPT !.pc = "close", !.buffer = EncodedTexts[linesep][proc[p].content]]]
    /\ UNCHANGED <<linesep, fs>>

\* the end of the with-block: f.__exit__ flushes the buffer and closes the
\* handle, also when the flush raises; then the emitter returns and the
\* script ends
Close(p) ==
    /\ proc[p].pc = "close"
    /\ LET path == proc[p].output_file[1] IN
       IF path \in DeviceFull
       THEN /\ proc' = [proc EXCEPT ![p] = FlushFailed(@)]
            /\ fs' = fs
       ELSE /\ proc' = [proc EXCEPT ![p] =
                          EndOfScript([@ EXCEPT !.f = "closed", !.flushes = @ + 1])]
            /\ fs' = [fs EXCEPT ![path] = FlushAtStart(@, proc[p].buffer)]
    /\ UNCHANGED linesep

(***************************************************************************)
(* Initial states: any platform, any prior content of out.h.               *)
(***************************************************************************)
RECURSIVE Repeat(_, _)
Repeat(s, n) ==
    IF n = 0 THEN ""
    ELSE LET half == Repeat(s, n \div 2)
         IN  IF n % 2 = 0 THEN half \o half ELSE half \o half \o s

PriorData(sep) ==
    {"", "junk", Repeat("x", MaxJunk),
     TextEncode(version_content, sep), TextEncode(win32_content, sep),
     TextEncode(pthreads_content, sep)}

PriorFiles(sep) == {AbsentFile} \cup {[exists |-> TRUE, data |-> d] : d \in PriorData(sep)}

Init ==
    /\ linesep \in LineSeps
    /\ \E prior \in PriorFiles(linesep) :
           fs = [path \in Paths |-> IF path = "out.h" THEN prior ELSE AbsentFile]
    /\ proc = [p \in Procs |-> IdleProc]

(***************************************************************************)
(* Spec: one invocation at a time, run again with identical arguments any  *)
(* number of times.                                                        *)
(* SpecFair: the same with at most MaxFairArgs arguments, and a started     *)
(* process keeps running: nothing in the script waits for anything.        *)
(* SpecConc: two invocations side by side, every interleaving of their     *)
(* steps.                                                                  *)
(***************************************************************************)
Step(p) == Main(p) \/ Open(p) \/ Write(p) \/ Close(p)

Next ==
    \/ Invoke(1, Argvs(ArgTokens, MaxArgs))
    \/ Step(1)
    \/ Rerun(1)

Spec == Init /\ [][Next]_vars

NextFair ==
    \/ Invoke(1, Argvs(ArgTokens, MaxFairArgs))
    \/ Step(1)
    \/ Rerun(1)

SpecFair == Init /\ [][NextFair]_vars /\ WF_vars(Step(1))

NextConc == \E p \in Procs : Invoke(p, ConcArgvs) \/ Step(p)

SpecConc == Init /\ [][NextConc]_vars


(***************************************************************************)
(* The header formats of the specification, built from their parts: an     *)
(* include guard bracketing a block of constant definitions.               *)
(***************************************************************************)
Define(name, value) == "#define " \o name \o " " \o value \o "\n"

Guarded(guard, body) ==
    "#ifndef " \o guard \o "\n" \o "#define " \o guard \o "\n" \o "\n"
    \o body \o "\n" \o "#endif // " \o guard \o "\n"

VersionHeader ==
    Guarded("XSIGMA_VERSION_MACROS_H",
            Define("XSIGMA_MAJOR_VERSION", "1") \o Define("XSIGMA_MINOR_VERSION", "0")
            \o Define("XSIGMA_BUILD_VERSION", "0")
            \o Define("XSIGMA_VERSION_FULL", "\"1.0.0\""))

Win32Header ==
    Guarded("XSIGMA_THREADS_H",
            Define("XSIGMA_USE_WIN32_THREADS", "1") \o Define("XSIGMA_MAX_THREADS", "64"))

PthreadsHeader ==
    Guarded("XSIGMA_THREADS_H",
            Define("XSIGMA_USE_PTHREADS", "1") \o Define("XSIGMA_MAX_THREADS", "64"))

\* a file holding exactly the text, its lines ended as the platform ends them
FileOf(text) == [exists |-> TRUE, data |-> TextEncode(text, linesep)]

Recognized == {"version", "threads"}

Done(p) == proc[p].pc = "done"

Exited(p, code) == Done(p) /\ proc[p].exit_status = Some(code)

\* the third argument is present and is exactly "win32"
VariantIsWin32(argv) == Len(argv) >= 4 /\ argv[4] = "win32"

\* the header the arguments of a recognized command select
SelectedHeader(argv) ==
    IF argv[2] = "version" THEN VersionHeader
    ELSE IF VariantIsWin32(argv) THEN Win32Header ELSE PthreadsHeader

EmitterOf(command) ==
    IF command = "version" THEN "gen_version_macros" ELSE "gen_threads_header"

\* the five ways an invocation ends
VersionEmitted(r) == r.calls = <<"gen_version_macros">> /\ r.raised = None /\ r.f = "closed"
ThreadsEmitted(r) == r.calls = <<"gen_threads_header">> /\ r.raised = None /\ r.f = "closed"
UsageError(r) == r.stdout = <<UsageLine>>
UnknownCommandError(r) == Len(r.argv) >= 2 /\ r.stdout = <<UnknownLine(r.argv[2])>>
FilesystemError(r) == r.raised # None

(***************************************************************************)
(* C1.  An invocation "version <writable path> ..." leaves the file at the *)
(* path equal, byte for byte, to the version header (guard                 *)
(* XSIGMA_VERSION_MACROS_H, MAJOR 1, MINOR 0, BUILD 0, FULL "1.0.0"), each *)
(* line ended by the platform's line separator, whatever the third and     *)
(* later arguments are.                                                    *)
(***************************************************************************)
C1_VersionHeaderWritten ==
    \A p \in Procs :
        LET argv == proc[p].argv IN
        (Done(p) /\ Len(argv) >= 3 /\ argv[2] = "version" /\ argv[3] \in Writable)
            => /\ fs[argv[3]] = FileOf(VersionHeader)
               /\ linesep = "\n" => fs[argv[3]].data = VersionHeader
               /\ Exited(p, 0)

C1_Witness ==
    \E p \in Procs :
        /\ Done(p) /\ Len(proc[p].argv) = 5
        /\ proc[p].argv[2] = "version" /\ proc[p].argv[3] = "out.h"
        /\ proc[p].argv[4] = "win32" /\ proc[p].argv[5] = "threads"
        /\ fs["out.h"] = FileOf(VersionHeader)

(***************************************************************************)
(* C2.  An invocation "threads <writable path> ..." leaves the win32       *)
(* variant in the file if and only if a third argument is present and is   *)
(* exactly "win32"; in every other case, whatever the fourth and later     *)
(* arguments are, it leaves the pthreads variant.                          *)
(***************************************************************************)
C2_ThreadsVariant ==
    \A p \in Procs :
        LET argv == proc[p].argv IN
        (Done(p) /\ Len(argv) >= 3 /\ argv[2] = "threads" /\ argv[3] \in Writable)
            => /\ fs[argv[3]] \in {FileOf(Win32Header), FileOf(PthreadsHeader)}
               /\ fs[argv[3]] = FileOf(Win32Header) <=> VariantIsWin32(argv)
               /\ fs[argv[3]] = FileOf(PthreadsHeader) <=> ~VariantIsWin32(argv)

C2_Witness ==
    \E p \in Procs :
        /\ Done(p) /\ Len(proc[p].argv) = 5
        /\ proc[p].argv[2] = "threads" /\ proc[p].argv[3] = "out.h"
        /\ proc[p].argv[4] = "version" /\ proc[p].argv[5] = "win32"
        /\ fs["out.h"] = FileOf(PthreadsHeader)

(***************************************************************************)
(* C3, as stated.  Whenever the first argument is "version" or "threads"   *)
(* and a second argument is supplied, whatever its value, the empty string *)
(* included, the matching emitter is called with it as the output path;    *)
(* "Unknown command" is printed for a recognized command only when no      *)
(* second argument is present.                                             *)
(***************************************************************************)
C3_EmitterForAnySecondArgument ==
    \A p \in Procs :
        LET argv == proc[p].argv IN
        (Done(p) /\ Len(argv) >= 2 /\ argv[2] \in Recognized)
            => /\ Len(argv) >= 3 => /\ proc[p].calls = <<EmitterOf(argv[2])>>
                                    /\ proc[p].output_file = Some(argv[3])
               /\ UnknownCommandError(proc[p]) => Len(argv) = 2

(***************************************************************************)
(* C3, amended.  Whenever the first argument is "version" or "threads" and *)
(* a non-empty second argument is supplied, the matching emitter is called *)
(* with it as the output path; "Unknown command" is printed for a          *)
(* recognized command exactly when the second argument is absent or is the *)
(* empty string, and then no emitter is called.                            *)
(***************************************************************************)
C3_EmitterForNonEmptySecondArgument ==
    \A p \in Procs :
        LET argv == proc[p].argv IN
        (Done(p) /\ Len(argv) >= 2 /\ argv[2] \in Recognized)
            => /\ (Len(argv) >= 3 /\ argv[3] # "")
                      => /\ proc[p].calls = <<EmitterOf(argv[2])>>
                         /\ proc[p].output_file = Some(argv[3])
               /\ UnknownCommandError(proc[p]) <=> (Len(argv) = 2 \/ argv[3] = "")
               /\ UnknownCommandError(proc[p]) => proc[p].calls = <<>>

C3_Witness ==
    \E p \in Procs :
        /\ Done(p) /\ Len(proc[p].argv) = 4
        /\ proc[p].argv[2] = "threads" /\ proc[p].argv[3] = "" /\ proc[p].argv[4] = "win32"
        /\ proc[p].stdout = <<"Unknown command: threads">>
        /\ proc[p].calls = <<>>

(***************************************************************************)
(* C4.  An invocation whose first argument is neither "version" nor        *)
(* "threads", or is one of them with no output path, prints exactly        *)
(* "Unknown command: <first argument>", exits with status 1 in that very   *)
(* step, and creates or modifies no file.                                  *)
(***************************************************************************)
UnknownCase(argv) == Len(argv) >= 2 /\ (argv[2] \notin Recognized \/ Len(argv) = 2)

C4_UnknownCommand ==
    [][\A p \in Procs :
          (proc[p].pc = "main" /\ proc'[p] # proc[p] /\ UnknownCase(proc[p].argv))
              => /\ proc'[p].stdout = <<UnknownLine(proc[p].argv[2])>>
                 /\ proc'[p].pc = "done"
                 /\ proc'[p].exit_status = Some(1)
                 /\ proc'[p].opens = 0 /\ proc'[p].calls = <<>>
                 /\ fs' = fs]_vars

C4_Witness ==
    \E p \in Procs :
        /\ Done(p) /\ proc[p].argv = <<ScriptName, "version">>
        /\ proc[p].stdout = <<"Unknown command: version">>
        /\ proc[p].exit_status = Some(1)

(***************************************************************************)
(* C5.  An invocation with zero arguments prints the usage line and        *)
(* nothing else (no "Unknown command" message: the dispatch is not         *)
(* reached), exits with status 1, and creates or modifies no file.         *)
(***************************************************************************)
C5_Usage ==
    [][\A p \in Procs :
          (proc[p].pc = "main" /\ proc'[p] # proc[p] /\ Len(proc[p].argv) = 1)
              => /\ proc'[p].stdout = <<"Usage: gen_headers.py <command> [output_file]">>
                 /\ proc'[p].pc = "done"
                 /\ proc'[p].exit_status = Some(1)
                 /\ proc'[p].command = None /\ proc'[p].calls = <<>>
                 /\ proc'[p].opens = 0
                 /\ fs' = fs]_vars

C5_Witness ==
    \E p \in Procs :
        /\ Done(p) /\ proc[p].argv = <<ScriptName>>
        /\ proc[p].stdout = <<UsageLine>> /\ proc[p].exit_status = Some(1)

(***************************************************************************)
(* C6.  Emission is a full overwrite and is idempotent: whatever the       *)
(* target held before (nothing, an empty file, a shorter or longer text,   *)
(* the output of an earlier run of the same or another command), an        *)
(* invocation that exits with status 0 leaves in it exactly the header its *)
(* arguments select, the first time and every time it is run again.        *)
(***************************************************************************)
C6_FullOverwrite ==
    \A p \in Procs :
        Exited(p, 0)
            => /\ proc[p].output_file # None
               /\ fs[proc[p].output_file[1]] = FileOf(SelectedHeader(proc[p].argv))
               /\ \A path \in Paths \ {proc[p].output_file[1]} :
                      fs[path] = AbsentFile \/ (path = "out.h" /\ fs[path] \in PriorFiles(linesep))

C6_Witness ==
    \E p \in Procs :
        /\ Exited(p, 0) /\ proc[p].rerun
        /\ proc[p].argv = <<ScriptName, "threads", "out.h">>
        /\ fs["out.h"] = FileOf(PthreadsHeader)

(***************************************************************************)
(* C7, as stated.  The exit status is 0 if and only if a header was        *)
(* emitted, and it is 1 only when the command is missing, unknown or       *)
(* incomplete: a filesystem failure during emission gives neither 0 nor 1. *)
(***************************************************************************)
Emitted(p) ==
    /\ VersionEmitted(proc[p]) \/ ThreadsEmitted(proc[p])
    /\ fs[proc[p].output_file[1]] = [exists |-> TRUE, data |-> proc[p].buffer]
    /\ proc[p].buffer = TextEncode(proc[p].content, linesep)

C7_StatusOneOnlyForUsageOrUnknown ==
    \A p \in Procs :
        Done(p) => /\ Exited(p, 0) <=> Emitted(p)
                   /\ Exited(p, 1) => UsageError(proc[p]) \/ UnknownCommandError(proc[p])
                   /\ FilesystemError(proc[p]) => ~Exited(p, 0) /\ ~Exited(p, 1)

(***************************************************************************)
(* C7, amended.  The exit status is 0 if and only if a header was emitted; *)
(* it is 1 when the command is missing, unknown or incomplete and also     *)
(* when emission fails with a filesystem error, which is told from the     *)
(* other two by its output (a traceback on standard error and nothing on   *)
(* standard output), not by its exit status.                               *)
(***************************************************************************)
C7_ExitStatus ==
    \A p \in Procs :
        Done(p) => /\ Exited(p, 0) \/ Exited(p, 1)
                   /\ Exited(p, 0) <=> Emitted(p)
                   /\ Exited(p, 1) <=> \/ UsageError(proc[p])
                                       \/ UnknownCommandError(proc[p])
                                       \/ FilesystemError(proc[p])
                   /\ FilesystemError(proc[p])
                          => proc[p].stdout = <<>> /\ proc[p].stderr # <<>>
                   /\ UsageError(proc[p]) \/ UnknownCommandError(proc[p])
                          => proc[p].stderr = <<>> /\ ~FilesystemError(proc[p])

C7_Witness ==
    \E p \in Procs :
        /\ Exited(p, 1) /\ proc[p].raised = Some("FileNotFoundError")
        /\ proc[p].argv = <<ScriptName, "version", "nodir/out.h">>

(***************************************************************************)
(* C8.  When opening or writing the output file fails, the error is not    *)
(* caught, translated or retried: nothing is printed on standard output,   *)
(* the file is opened once and flushed at most once, the handle, if it was *)
(* opened, is closed, and the process ends with the filesystem error.      *)
(***************************************************************************)
C8_ErrorPropagates ==
    \A p \in Procs :
        FilesystemError(proc[p])
            => /\ Done(p)
               /\ proc[p].stdout = <<>>
               /\ proc[p].opens = 1 /\ proc[p].flushes <= 1
               /\ proc[p].f # "open"
               /\ proc[p].f = "closed" <=> proc[p].flushes = 1
               /\ proc[p].raised \in {Some("FileNotFoundError"), Some("OSError")}
               /\ proc[p].stderr = <<"Traceback (most recent call last): " \o proc[p].raised[1]>>
               /\ Len(proc[p].calls) = 1

C8_Witness ==
    \E p \in Procs :
        /\ Done(p) /\ proc[p].raised = Some("OSError")
        /\ proc[p].f = "closed" /\ proc[p].flushes = 1
        /\ proc[p].output_file = Some("full/out.h")

(***************************************************************************)
(* C9, as stated.  An invocation that has ended has ended in exactly one   *)
(* of four ways: version header emitted, threads header emitted, usage     *)
(* error, unknown-command error.                                           *)
(***************************************************************************)
Count(flags) == Cardinality({i \in DOMAIN flags : flags[i]})

C9_FourOutcomes ==
    \A p \in Procs :
        Done(p) => Count(<<VersionEmitted(proc[p]), ThreadsEmitted(proc[p]),
                           UsageError(proc[p]), UnknownCommandError(proc[p])>>) = 1

(***************************************************************************)
(* C9, amended.  Every invocation terminates, and it ends in exactly one   *)
(* of five ways: version header emitted, threads header emitted, usage     *)
(* error, unknown-command error, or an uncaught filesystem error; none of  *)
(* the three errors is reported before the invocation ends.                *)
(***************************************************************************)
Running(p) == proc[p].pc \in {"main", "open", "write", "close"}

OneOfFive(p) ==
    /\ Done(p) => Count(<<VersionEmitted(proc[p]), ThreadsEmitted(proc[p]),
                          UsageError(proc[p]), UnknownCommandError(proc[p]),
                          FilesystemError(proc[p])>>) = 1
    /\ ~Done(p) => Count(<<UsageError(proc[p]), UnknownCommandError(proc[p]),
                           FilesystemError(proc[p])>>) = 0

C9_FiveOutcomes ==
    /\ \A p \in Procs : Running(p) ~> Done(p)
    /\ [](\A p \in Procs : OneOfFive(p))

C9_Witness ==
    \E p \in Procs :
        /\ Done(p) /\ FilesystemError(proc[p])
        /\ ~VersionEmitted(proc[p]) /\ ~ThreadsEmitted(proc[p])
        /\ ~UsageError(proc[p]) /\ ~UnknownCommandError(proc[p])

(***************************************************************************)
(* C10, as stated.  When two invocations that write the same path have     *)
(* both ended with status 0, however their open, write and close steps     *)
(* were interleaved, the file holds the complete header of one of them.    *)
(***************************************************************************)
BothEmittedTo(path) ==
    \A p \in Procs : Exited(p, 0) /\ proc[p].output_file = Some(path)

C10_OneCompleteHeader ==
    \A path \in Paths :
        BothEmittedTo(path)
            => \E p \in Procs : fs[path] = FileOf(SelectedHeader(proc[p].argv))

(***************************************************************************)
(* C10, amended.  When two invocations that write the same path have both  *)
(* ended with status 0, the file holds the complete header of one of them, *)
(* or the shorter of the two headers followed by what the longer one has   *)
(* beyond the shorter's length; it holds the complete header whenever the  *)
(* two invocations select the same header.                                 *)
(***************************************************************************)
\* text a laid over the start of text b
Overlay(a, b) == a \o SubSeq(b, Len(a) + 1, Len(b))

C10_HeaderOrOverlay ==
    \A path \in Paths :
        BothEmittedTo(path)
            => LET a == TextEncode(SelectedHeader(proc[1].argv), linesep)
                   b == TextEncode(SelectedHeader(proc[2].argv), linesep)
               IN  /\ fs[path].exists
                   /\ fs[path].data \in {a, b, Overlay(a, b), Overlay(b, a)}
                   /\ a = b => fs[path].data = a

C10_Witness ==
    /\ BothEmittedTo("out.h")
    /\ proc[1].argv = <<ScriptName, "version", "out.h">>
    /\ proc[2].argv = <<ScriptName, "threads", "out.h", "win32">>
    /\ fs["out.h"].data = Overlay(TextEncode(Win32Header, linesep), TextEncode(VersionHeader, linesep))
    /\ fs["out.h"].data # TextEncode(Win32Header, linesep)
====
